---------------------------- MODULE Spec2Model ----------------------------
(***************************************************************************)
(* Model of change_ip.py: the dynamic-DNS reconciliation loop of main(),   *)
(* the resolver get_current_ip(), the validator is_valid_public_ipv4(),    *)
(* the two Cloudflare calls and the Telegram notifier.                     *)
(*                                                                         *)
(* Strings are sequences of one-character strings.  Python's None is the   *)
(* empty sequence, which no resolved IP can equal (the validator rejects   *)
(* the empty string).                                                      *)
(***************************************************************************)
EXTENDS Integers, Sequences, FiniteSets, TLC

(***************************************************************************)
(* Bounds of the model and constants of the program.                       *)
(***************************************************************************)
\* cfg["max_retries"] ranges over 0..MaxRetries
MaxRetries == 2
\* cfg["telegram_chat_ids"] has 0..MaxChats entries
MaxChats == 2
\* consecutive ticks with the provider already consistent are counted up to
\* MaxStableTicks
MaxStableTicks == 2
\* len(methods) in get_current_ip
NumEndpoints == 3

None == <<>>

(***************************************************************************)
(* Strings.                                                                *)
(***************************************************************************)
\* what \d matches and int() reads: the ASCII digits and every other Unicode
\* decimal digit; ARABIC-INDIC DIGIT THREE, written by its code point,
\* stands for the non-ASCII ones
Digits == {"0", "1", "2", "3", "4", "5", "6", "7", "8", "9", "U+0663"}
\* str.strip() and int() remove these
Whitespace == {" ", "\n"}

DigitVal(c) ==
    CASE c = "0" -> 0 [] c = "1" -> 1 [] c = "2" -> 2 [] c = "3" -> 3
      [] c = "4" -> 4 [] c = "5" -> 5 [] c = "6" -> 6 [] c = "7" -> 7
      [] c = "8" -> 8 [] c = "9" -> 9 [] c = "U+0663" -> 3

RECURSIVE LStrip(_)
LStrip(s) ==
    IF s # <<>> /\ Head(s) \in Whitespace THEN LStrip(Tail(s)) ELSE s

RECURSIVE RStrip(_)
RStrip(s) ==
    IF s # <<>> /\ s[Len(s)] \in Whitespace
    THEN RStrip(SubSeq(s, 1, Len(s) - 1))
    ELSE s

\* r.decode("utf-8").strip()
Strip(s) == RStrip(LStrip(s))

\* str.split("."): the pieces between the dots, empty pieces kept
RECURSIVE SplitDots(_, _, _)
SplitDots(s, cur, acc) ==
    IF s = <<>> THEN Append(acc, cur)
    ELSE IF Head(s) = "." THEN SplitDots(Tail(s), <<>>, Append(acc, cur))
    ELSE SplitDots(Tail(s), Append(cur, Head(s)), acc)

Split(s) == SplitDots(s, <<>>, <<>>)

AllDigits(s) == \A i \in 1..Len(s) : s[i] \in Digits

\* re.match(r"^(\d{1,3}\.){3}\d{1,3}$", ip): "$" matches at the end of the
\* string and also just before one final newline
ShapeAt(s) ==
    LET p == Split(s)
    IN  /\ Len(p) = 4
        /\ \A i \in 1..4 : Len(p[i]) \in 1..3 /\ AllDigits(p[i])

MatchesShape(ip) ==
    \/ ShapeAt(ip)
    \/ /\ ip # <<>>
       /\ ip[Len(ip)] = "\n"
       /\ ShapeAt(SubSeq(ip, 1, Len(ip) - 1))

RECURSIVE DecimalValue(_, _)
DecimalValue(s, acc) ==
    IF s = <<>> THEN acc ELSE DecimalValue(Tail(s), 10 * acc + DigitVal(Head(s)))

\* int(o): surrounding whitespace is ignored; -1 stands for ValueError
ParseInt(o) ==
    LET t == Strip(o)
    IN  IF t # <<>> /\ AllDigits(t) THEN DecimalValue(t, 0) ELSE -1

\* the range and private/loopback tests on the four parsed octets
PublicOctets(q) ==
    /\ \A i \in 1..4 : q[i] >= 0 /\ q[i] <= 255
    /\ q[1] \notin {10, 127}
    /\ ~(q[1] = 172 /\ 16 <= q[2] /\ q[2] <= 31)
    /\ ~(q[1] = 192 /\ q[2] = 168)

is_valid_public_ipv4(ip) ==
    /\ MatchesShape(ip)
    /\ LET octets == Split(ip)
           octets_int == [i \in 1..4 |-> ParseInt(octets[i])]
       IN  /\ \A i \in 1..4 : octets_int[i] # -1
           /\ PublicOctets(octets_int)

(***************************************************************************)
(* Response bodies the IP-discovery endpoints may return.                  *)
(***************************************************************************)
IpA == <<"8", ".", "8", ".", "4", ".", "4">>
IpB == <<"1", "7", "2", ".", "3", "2", ".", "0", ".", "1">>
\* an answer whose last octet is written with a non-ASCII digit
IpU == <<"8", ".", "8", ".", "4", ".", "U+0663">>

Bodies ==
    { IpA,
      IpB,
      IpA \o <<"\n">>,
      <<" ">> \o IpB \o <<"\n">>,
      IpU,
      <<"1", "0", ".", "0", ".", "0", ".", "1">>,
      <<"1", "2", "7", ".", "0", ".", "0", ".", "1">>,
      <<"1", "7", "2", ".", "1", "6", ".", "0", ".", "1">>,
      <<"1", "9", "2", ".", "1", "6", "8", ".", "1", ".", "1">>,
      <<"2", "5", "6", ".", "1", ".", "1", ".", "1">>,
      <<"8", ".", "8", ".", "8">>,
      <<"e", "r", "r">>,
      <<>> }

\* parser(response.read()): what get_current_ip hands to the validator
Answer(body) == Strip(body)

\* the answers get_current_ip returns, and those it logs and passes over
ValidAnswers ==
    { Answer(b) : b \in { x \in Bodies : is_valid_public_ipv4(Answer(x)) } }
RejectedAnswers ==
    { Answer(b) : b \in { x \in Bodies : ~is_valid_public_ipv4(Answer(x)) } }

\* what a record's content can be on the provider's side
Contents == {IpA, IpB}
RecordIds == {"r1", "r2"}
Records == [id : RecordIds, content : Contents, proxied : BOOLEAN]


(***************************************************************************)
(* State.                                                                  *)
(***************************************************************************)
VARIABLES
    max_retries,   \* cfg["max_retries"]
    bot_token,     \* cfg.get("telegram_bot_token"): "absent", "" or a token
    chat_ids,      \* cfg["telegram_chat_ids"], a list of integers
    pc,            \* where main() is
    last_ip,       \* main's last_ip, None until a tick reconciles
    current_ip,    \* main's current_ip in this tick
    ep,            \* get_current_ip: index of the next endpoint to query
    last_error,    \* get_current_ip: 0 for None, i for endpoint i's exception
    resolve_exc,   \* what the RuntimeError of get_current_ip carries, -1: none
    attempt,       \* the retry loop's attempt
    record_id,     \* what get_cloudflare_record returned in this attempt
    cf_ip,
    cf_proxied,
    chat_idx,      \* send_telegram_message: index of the next chat
    result,        \* provider side: the result list for the record name
    queried,       \* observation: endpoints the get_current_ip call that is
                   \* running or has just ended queried, in order
    fetches,       \* observation: get_cloudflare_record calls in this tick
    writes,        \* observation: update_cloudflare_dns calls in this tick
    okWrites,      \* observation: those of them that returned True
    lastWrite,     \* observation: the latest such call of this tick, if any
    retrySleeps,   \* observation: time.sleep(retry_delay) calls in this tick
    sent,          \* observation: the chats sendMessage requests went to in
                   \* this tick, in order
    firstFailed,   \* observation: index in sent of the first request that
                   \* failed, 0 if none did
    tickStartIp,   \* observation: last_ip when the tick began
    outcome,       \* observation: how the tick ended, "running" until then
    stable         \* observation: the IP the provider has held, unproxied,
                   \* at every Resolve since it was last seen otherwise
VARIABLE
    stableTicks    \* observation: the number of those Resolves, capped
VARIABLES
    attFetches,    \* observation: get_cloudflare_record calls in this attempt
    attFetchOk,    \* observation: one of them returned a record
    attWrites,     \* observation: update_cloudflare_dns calls in this attempt
    attWriteOk     \* observation: one of them returned True
VARIABLE
    notifyCalls    \* observation: send_telegram_message calls that have
                   \* returned in this tick
VARIABLE
    steady         \* environment: the address every get_current_ip call
                   \* returns from now on, with every Cloudflare call
                   \* succeeding; None while anything may happen
VARIABLES
    candidate,     \* is_valid_public_ipv4 called on its own: the argument
    verdict        \* and what it returned, "none" before the call

vars ==
    << max_retries, bot_token, chat_ids, pc, last_ip, current_ip, ep,
       last_error, resolve_exc, attempt, record_id, cf_ip, cf_proxied,
       chat_idx, result, queried, fetches, writes, okWrites, lastWrite,
       retrySleeps, sent, firstFailed, tickStartIp, outcome, stable,
       stableTicks, candidate, verdict, attFetches, attFetchOk, attWrites,
       attWriteOk, steady, notifyCalls >>

cfgVars == << max_retries, bot_token, chat_ids >>
resolverVars == << ep, last_error, resolve_exc, queried >>
fetchedVars == << record_id, cf_ip, cf_proxied >>
writeObs == << writes, okWrites, lastWrite >>
sentObs == << sent, firstFailed >>
tickObs == << fetches, writeObs, retrySleeps, sentObs, tickStartIp, outcome >>
valVars == << candidate, verdict >>
attemptObs == << attFetches, attFetchOk, attWrites, attWriteOk >>
stableVars == << stable, stableTicks >>

Tokens == {"absent", "", "tok"}
ChatLists == { [i \in 1..n |-> i] : n \in 0..MaxChats }

Init ==
    /\ max_retries \in 0..MaxRetries
    /\ bot_token \in Tokens
    /\ chat_ids \in ChatLists
    /\ pc = "resolve"
    /\ last_ip = None
    /\ current_ip = None
    /\ ep = 1
    /\ last_error = 0
    /\ resolve_exc = -1
    /\ attempt = 0
    /\ record_id = ""
    /\ cf_ip = None
    /\ cf_proxied = FALSE
    /\ chat_idx = 1
    /\ result \in {<<>>} \cup { <<r>> : r \in Records }
    /\ queried = <<>>
    /\ fetches = 0
    /\ writes = 0
    /\ okWrites = 0
    /\ lastWrite = <<>>
    /\ retrySleeps = 0
    /\ sent = <<>>
    /\ firstFailed = 0
    /\ tickStartIp = None
    /\ outcome = "running"
    /\ stable = None
    /\ stableTicks = 0
    /\ candidate = None
    /\ verdict = "none"
    /\ steady = None
    /\ notifyCalls = 0
    /\ attFetches = 0
    /\ attFetchOk = FALSE
    /\ attWrites = 0
    /\ attWriteOk = FALSE

(***************************************************************************)
(* Conditions of main() and send_telegram_message().                       *)
(***************************************************************************)
\* the change check lost: every tick reconciles
IpChanged_Always(cur, last) == TRUE

\* if current_ip != last_ip
IpChanged(cur, last) == cur # last

\* range(1, cfg["max_retries"] + 2): one attempt too many
HasNextAttempt_OffByOne(n, max) == n <= max

\* for attempt in range(1, cfg["max_retries"] + 1): is there an attempt n + 1
HasNextAttempt(n, max) == n + 1 <= max

\* every fetched record is overwritten
NeedsUpdate_Always(cur, content, proxied) == TRUE

\* if current_ip != cf_ip: the proxy flag is not looked at
NeedsUpdate_IgnoresProxy(cur, content, proxied) == cur # content

\* if current_ip != cf_ip or cf_proxied
NeedsUpdate(cur, content, proxied) == cur # content \/ proxied

\* if attempt < cfg["max_retries"]
RetriesLeft(n, max) == n < max

\* the payload update_cloudflare_dns sends for record id
UpdatePayload(id, ip, proxied) == [id |-> id, content |-> ip, proxied |-> proxied]

\* update_cloudflare_dns(cfg, record_id, current_ip, proxied=cf_proxied)
UpdateCall_KeepsProxy == [id |-> record_id, content |-> current_ip,
                          proxied |-> cf_proxied]

\* main's call update_cloudflare_dns(cfg, record_id, current_ip, proxied=False)
UpdateCall == UpdatePayload(record_id, current_ip, FALSE)

\* only the chat list is looked at: an empty token still sends
Configured_ChatsOnly(token, chats) == chats # <<>>

\* not (not bot_token or not chat_ids)
Configured(token, chats) == token \notin {"absent", ""} /\ chats # <<>>

Consistent(res, ip) ==
    res # <<>> /\ Head(res).content = ip /\ ~Head(res).proxied

(***************************************************************************)
(* get_current_ip(), one endpoint per step.                                *)
(***************************************************************************)
\* the endpoint answers and the stripped body passes the validator: return
QueryEndpointValid ==
    /\ pc = "resolve"
    /\ ep <= NumEndpoints
    /\ \E ip \in ValidAnswers :
        /\ current_ip' = ip
        /\ stable' = IF Consistent(result, ip) THEN ip ELSE None
        /\ stableTicks' =
                IF ~Consistent(result, ip) THEN 0
                ELSE IF stable # ip THEN 1
                ELSE IF stableTicks < MaxStableTicks THEN stableTicks + 1
                ELSE stableTicks
    /\ queried' = Append(queried, ep)
    /\ ep' = 1
    /\ last_error' = 0
    /\ pc' = "check"
    /\ UNCHANGED << valVars, steady, notifyCalls, attemptObs, cfgVars,
                    last_ip, resolve_exc, attempt, fetchedVars, chat_idx,
                    result, tickObs >>

\* a rejected answer followed by another request to the same endpoint
QueryEndpointInvalid_SameEndpoint ==
    /\ pc = "resolve"
    /\ ep <= NumEndpoints
    /\ RejectedAnswers # {}
    /\ queried' = Append(queried, ep)
    /\ UNCHANGED << valVars, steady, notifyCalls, attemptObs, cfgVars, pc,
                    last_ip, current_ip, ep, last_error, resolve_exc, attempt,
                    fetchedVars, chat_idx, result, tickObs, stableVars >>

\* the endpoint answers with something the validator rejects: next endpoint
QueryEndpointInvalid ==
    /\ pc = "resolve"
    /\ ep <= NumEndpoints
    /\ RejectedAnswers # {}
    /\ queried' = Append(queried, ep)
    /\ ep' = ep + 1
    /\ UNCHANGED << valVars, steady, notifyCalls, attemptObs, cfgVars, pc,
                    last_ip, current_ip, last_error, resolve_exc, attempt,
                    fetchedVars, chat_idx, result, tickObs, stableVars >>

\* urlopen or the parser raises: remember the error, next endpoint
QueryEndpointError ==
    /\ pc = "resolve"
    /\ ep <= NumEndpoints
    /\ queried' = Append(queried, ep)
    /\ last_error' = ep
    /\ ep' = ep + 1
    /\ UNCHANGED << valVars, steady, notifyCalls, attemptObs, cfgVars, pc,
                    last_ip, current_ip, resolve_exc, attempt, fetchedVars,
                    chat_idx, result, tickObs, stableVars >>

\* all endpoints tried: raise RuntimeError(... last_error)
ResolveFail ==
    /\ pc = "resolve"
    /\ ep > NumEndpoints
    /\ resolve_exc' = last_error
    /\ ep' = 1
    /\ last_error' = 0
    /\ stable' = None
    /\ stableTicks' = 0
    /\ pc' = "outer_except"
    /\ outcome' = "unresolved"
    /\ UNCHANGED << valVars, steady, notifyCalls, attemptObs, cfgVars,
                    last_ip, current_ip, queried, attempt, fetchedVars,
                    chat_idx, result, fetches, writeObs, retrySleeps, sentObs,
                    tickStartIp >>

(***************************************************************************)
(* main(): the change check and the retry loop.                            *)
(***************************************************************************)
\* current_ip == last_ip: "IP invariato, nessuna azione"
ShortCircuit ==
    /\ pc = "check"
    /\ ~IpChanged(current_ip, last_ip)
    /\ pc' = "sleep"
    /\ queried' = <<>>
    /\ resolve_exc' = -1
    /\ outcome' = "unchanged"
    /\ UNCHANGED << valVars, steady, notifyCalls, attemptObs, cfgVars,
                    last_ip, current_ip, ep, last_error, attempt, fetchedVars,
                    chat_idx, result, fetches, writeObs, retrySleeps, sentObs,
                    tickStartIp, stableVars >>

\* current_ip != last_ip: enter the for loop
BeginReconcile ==
    /\ pc = "check"
    /\ IpChanged(current_ip, last_ip)
    /\ attempt' = 0
    /\ pc' = "for"
    /\ queried' = <<>>
    /\ resolve_exc' = -1
    /\ UNCHANGED << valVars, steady, notifyCalls, attemptObs, cfgVars,
                    last_ip, current_ip, ep, last_error, fetchedVars,
                    chat_idx, result, tickObs, stableVars >>

\* the for statement takes the next attempt
NextAttempt ==
    /\ pc = "for"
    /\ HasNextAttempt(attempt, max_retries)
    /\ attempt' = attempt + 1
    /\ pc' = "fetch"
    /\ attFetches' = 0
    /\ attFetchOk' = FALSE
    /\ attWrites' = 0
    /\ attWriteOk' = FALSE
    /\ UNCHANGED << valVars, steady, notifyCalls, cfgVars, last_ip,
                    current_ip, resolverVars, fetchedVars, chat_idx, result,
                    tickObs, stableVars >>

\* last_ip = current_ip placed after the loop, not in its two success branches
LoopExhausted_MarksApplied ==
    /\ pc = "for"
    /\ ~HasNextAttempt(attempt, max_retries)
    /\ last_ip' = current_ip
    /\ pc' = "sleep"
    /\ outcome' = "abandoned"
    /\ UNCHANGED << valVars, steady, notifyCalls, attemptObs, cfgVars,
                    current_ip, resolverVars, attempt, fetchedVars, chat_idx,
                    result, fetches, writeObs, retrySleeps, sentObs,
                    tickStartIp, stableVars >>

\* the range is exhausted: the for statement ends
LoopExhausted ==
    /\ pc = "for"
    /\ ~HasNextAttempt(attempt, max_retries)
    /\ pc' = "sleep"
    /\ outcome' = "abandoned"
    /\ UNCHANGED << valVars, steady, notifyCalls, attemptObs, cfgVars,
                    last_ip, current_ip, resolverVars, attempt, fetchedVars,
                    chat_idx, result, fetches, writeObs, retrySleeps, sentObs,
                    tickStartIp, stableVars >>

\* get_cloudflare_record returns the first result
FetchOk ==
    /\ pc = "fetch"
    /\ result # <<>>
    /\ fetches' = fetches + 1
    /\ record_id' = Head(result).id
    /\ cf_ip' = Head(result).content
    /\ cf_proxied' = Head(result).proxied
    /\ pc' = "decide"
    /\ attFetches' = attFetches + 1
    /\ attFetchOk' = TRUE
    /\ UNCHANGED << valVars, steady, notifyCalls, attWrites, attWriteOk,
                    cfgVars, last_ip, current_ip, resolverVars, attempt,
                    chat_idx, result, writeObs, retrySleeps, sentObs,
                    tickStartIp, outcome, stableVars >>

\* get_cloudflare_record raises: no result ("Record DNS A non trovato")
FetchNotFound ==
    /\ pc = "fetch"
    /\ result = <<>>
    /\ fetches' = fetches + 1
    /\ pc' = "inner_except"
    /\ attFetches' = attFetches + 1
    /\ UNCHANGED << valVars, steady, notifyCalls, attFetchOk, attWrites,
                    attWriteOk, cfgVars, last_ip, current_ip, resolverVars,
                    attempt, fetchedVars, chat_idx, result, writeObs,
                    retrySleeps, sentObs, tickStartIp, outcome, stableVars >>

\* the failure of get_cloudflare_record swallowed: main() goes on to line 219
FetchError_GoesOn ==
    /\ pc = "fetch"
    /\ fetches' = fetches + 1
    /\ pc' = "decide"
    /\ attFetches' = attFetches + 1
    /\ UNCHANGED << valVars, steady, notifyCalls, attFetchOk, attWrites,
                    attWriteOk, cfgVars, last_ip, current_ip, resolverVars,
                    attempt, fetchedVars, chat_idx, result, writeObs,
                    retrySleeps, sentObs, tickStartIp, outcome, stableVars >>

\* get_cloudflare_record raises: network error, HTTP error, success false
FetchError ==
    /\ pc = "fetch"
    /\ fetches' = fetches + 1
    /\ pc' = "inner_except"
    /\ attFetches' = attFetches + 1
    /\ UNCHANGED << valVars, steady, notifyCalls, attFetchOk, attWrites,
                    attWriteOk, cfgVars, last_ip, current_ip, resolverVars,
                    attempt, fetchedVars, chat_idx, result, writeObs,
                    retrySleeps, sentObs, tickStartIp, outcome, stableVars >>

\* the record differs or is proxied: go and update it
DecideUpdate ==
    /\ pc = "decide"
    /\ NeedsUpdate(current_ip, cf_ip, cf_proxied)
    /\ pc' = "update"
    /\ UNCHANGED << valVars, steady, notifyCalls, attemptObs, cfgVars,
                    last_ip, current_ip, resolverVars, attempt, fetchedVars,
                    chat_idx, result, tickObs, stableVars >>

\* the already-consistent branch without last_ip = current_ip
AlreadyAligned_ForgetsIp ==
    /\ pc = "decide"
    /\ ~NeedsUpdate(current_ip, cf_ip, cf_proxied)
    /\ pc' = "sleep"
    /\ outcome' = "aligned"
    /\ UNCHANGED << valVars, steady, notifyCalls, attemptObs, cfgVars,
                    last_ip, current_ip, resolverVars, attempt, fetchedVars,
                    chat_idx, result, fetches, writeObs, retrySleeps, sentObs,
                    tickStartIp, stableVars >>

\* "Cloudflare gia' allineato": last_ip = current_ip; break
AlreadyAligned ==
    /\ pc = "decide"
    /\ ~NeedsUpdate(current_ip, cf_ip, cf_proxied)
    /\ last_ip' = current_ip
    /\ pc' = "sleep"
    /\ outcome' = "aligned"
    /\ UNCHANGED << valVars, steady, notifyCalls, attemptObs, cfgVars,
                    current_ip, resolverVars, attempt, fetchedVars, chat_idx,
                    result, fetches, writeObs, retrySleeps, sentObs,
                    tickStartIp, stableVars >>

\* line 233 left out: after the successful update straight to line 234
UpdateOk_NoNotify ==
    /\ pc = "update"
    /\ result # <<>>
    /\ Head(result).id = UpdateCall.id
    /\ writes' = writes + 1
    /\ okWrites' = okWrites + 1
    /\ lastWrite' = << UpdateCall >>
    /\ result' = << [id |-> UpdateCall.id, content |-> UpdateCall.content,
                     proxied |-> UpdateCall.proxied] >>
    /\ chat_idx' = 1
    /\ pc' = "applied"
    /\ attWrites' = attWrites + 1
    /\ attWriteOk' = TRUE
    /\ UNCHANGED << valVars, steady, notifyCalls, attFetches, attFetchOk,
                    cfgVars, last_ip, current_ip, resolverVars, attempt,
                    fetchedVars, fetches, retrySleeps, sentObs, tickStartIp,
                    outcome, stableVars >>

\* update_cloudflare_dns returns True: the provider replaced the record
UpdateOk ==
    /\ pc = "update"
    /\ result # <<>>
    /\ Head(result).id = UpdateCall.id
    /\ writes' = writes + 1
    /\ okWrites' = okWrites + 1
    /\ lastWrite' = << UpdateCall >>
    /\ result' = << [id |-> UpdateCall.id, content |-> UpdateCall.content,
                     proxied |-> UpdateCall.proxied] >>
    /\ chat_idx' = 1
    /\ pc' = "notify"
    /\ attWrites' = attWrites + 1
    /\ attWriteOk' = TRUE
    /\ UNCHANGED << valVars, steady, notifyCalls, attFetches, attFetchOk,
                    cfgVars, last_ip, current_ip, resolverVars, attempt,
                    fetchedVars, fetches, retrySleeps, sentObs, tickStartIp,
                    outcome, stableVars >>

\* the returned flag is not looked at: success=false goes on as a success
UpdateRejected_TreatedAsSuccess ==
    /\ pc = "update"
    /\ writes' = writes + 1
    /\ lastWrite' = << UpdateCall >>
    /\ chat_idx' = 1
    /\ pc' = "notify"
    /\ attWrites' = attWrites + 1
    /\ UNCHANGED << valVars, steady, notifyCalls, attFetches, attFetchOk,
                    attWriteOk, cfgVars, last_ip, current_ip, resolverVars,
                    attempt, fetchedVars, result, fetches, okWrites,
                    retrySleeps, sentObs, tickStartIp, outcome, stableVars >>

\* update_cloudflare_dns returns False (success=false): fall out of the try
UpdateRejected ==
    /\ pc = "update"
    /\ writes' = writes + 1
    /\ lastWrite' = << UpdateCall >>
    /\ pc' = "for"
    /\ attWrites' = attWrites + 1
    /\ UNCHANGED << valVars, steady, notifyCalls, attFetches, attFetchOk,
                    attWriteOk, cfgVars, last_ip, current_ip, resolverVars,
                    attempt, fetchedVars, chat_idx, result, fetches, okWrites,
                    retrySleeps, sentObs, tickStartIp, outcome, stableVars >>

\* update_cloudflare_dns raises
UpdateError ==
    /\ pc = "update"
    /\ writes' = writes + 1
    /\ lastWrite' = << UpdateCall >>
    /\ pc' = "inner_except"
    /\ attWrites' = attWrites + 1
    /\ UNCHANGED << valVars, steady, notifyCalls, attFetches, attFetchOk,
                    attWriteOk, cfgVars, last_ip, current_ip, resolverVars,
                    attempt, fetchedVars, chat_idx, result, fetches, okWrites,
                    retrySleeps, sentObs, tickStartIp, outcome, stableVars >>


(***************************************************************************)
(* send_telegram_message(), one chat per step, and the lines after it.     *)
(***************************************************************************)
\* "Telegram non configurato": return without a request
NotifySkip ==
    /\ pc = "notify"
    /\ ~Configured(bot_token, chat_ids)
    /\ pc' = "applied"
    /\ notifyCalls' = notifyCalls + 1
    /\ UNCHANGED << valVars, steady, attemptObs, cfgVars, last_ip, current_ip,
                    resolverVars, attempt, fetchedVars, chat_idx, result,
                    tickObs, stableVars >>

\* urlopen outside the try: an exception leaves send_telegram_message
AfterDelivery_Raises(how) == IF how = "error" THEN "inner_except" ELSE "notify"

\* where main() is after the request to the current chat ended as how
AfterDelivery(how) == "notify"

\* one sendMessage request: answered 200, answered otherwise, or raising
\* (caught and logged inside the for loop)
NotifySend ==
    /\ pc = "notify"
    /\ Configured(bot_token, chat_ids)
    /\ chat_idx <= Len(chat_ids)
    /\ \E how \in {"ok", "rejected", "error"} :
        /\ firstFailed' = IF how # "ok" /\ firstFailed = 0
                          THEN Len(sent) + 1
                          ELSE firstFailed
        /\ pc' = AfterDelivery(how)
    /\ sent' = Append(sent, chat_ids[chat_idx])
    /\ chat_idx' = chat_idx + 1
    /\ UNCHANGED << valVars, steady, notifyCalls, attemptObs, cfgVars,
                    last_ip, current_ip, resolverVars, attempt, fetchedVars,
                    result, fetches, writeObs, retrySleeps, tickStartIp,
                    outcome, stableVars >>

\* the for loop over chat_ids ends: return
NotifyReturn ==
    /\ pc = "notify"
    /\ Configured(bot_token, chat_ids)
    /\ chat_idx > Len(chat_ids)
    /\ pc' = "applied"
    /\ notifyCalls' = notifyCalls + 1
    /\ UNCHANGED << valVars, steady, attemptObs, cfgVars, last_ip, current_ip,
                    resolverVars, attempt, fetchedVars, chat_idx, result,
                    tickObs, stableVars >>

\* last_ip = current_ip without the break: the loop goes on
MarkApplied_NoBreak ==
    /\ pc = "applied"
    /\ last_ip' = current_ip
    /\ pc' = "for"
    /\ outcome' = "updated"
    /\ UNCHANGED << valVars, steady, notifyCalls, attemptObs, cfgVars,
                    current_ip, resolverVars, attempt, fetchedVars, chat_idx,
                    result, fetches, writeObs, retrySleeps, sentObs,
                    tickStartIp, stableVars >>

\* last_ip = current_ip; break
MarkApplied ==
    /\ pc = "applied"
    /\ last_ip' = current_ip
    /\ pc' = "sleep"
    /\ outcome' = "updated"
    /\ UNCHANGED << valVars, steady, notifyCalls, attemptObs, cfgVars,
                    current_ip, resolverVars, attempt, fetchedVars, chat_idx,
                    result, fetches, writeObs, retrySleeps, sentObs,
                    tickStartIp, stableVars >>

(***************************************************************************)
(* The exception handlers and the two sleeps.                              *)
(***************************************************************************)
\* except Exception (inner), attempts left: "Riprovo tra ... secondi"
InnerExceptRetry ==
    /\ pc = "inner_except"
    /\ RetriesLeft(attempt, max_retries)
    /\ pc' = "retry_sleep"
    /\ UNCHANGED << valVars, steady, notifyCalls, attemptObs, cfgVars,
                    last_ip, current_ip, resolverVars, attempt, fetchedVars,
                    chat_idx, result, tickObs, stableVars >>

\* except Exception (inner), last attempt: "rinuncio fino al prossimo ciclo"
InnerExceptGiveUp ==
    /\ pc = "inner_except"
    /\ ~RetriesLeft(attempt, max_retries)
    /\ pc' = "for"
    /\ UNCHANGED << valVars, steady, notifyCalls, attemptObs, cfgVars,
                    last_ip, current_ip, resolverVars, attempt, fetchedVars,
                    chat_idx, result, tickObs, stableVars >>

\* time.sleep(cfg["retry_delay"])
RetrySleep ==
    /\ pc = "retry_sleep"
    /\ retrySleeps' = retrySleeps + 1
    /\ pc' = "for"
    /\ UNCHANGED << valVars, steady, notifyCalls, attemptObs, cfgVars,
                    last_ip, current_ip, resolverVars, attempt, fetchedVars,
                    chat_idx, result, fetches, writeObs, sentObs, tickStartIp,
                    outcome, stableVars >>

\* no outer handler: the exception leaves main()
OuterExcept_Reraise ==
    /\ pc = "outer_except"
    /\ pc' = "terminated"
    /\ queried' = <<>>
    /\ resolve_exc' = -1
    /\ UNCHANGED << valVars, steady, notifyCalls, attemptObs, cfgVars,
                    last_ip, current_ip, ep, last_error, attempt, fetchedVars,
                    chat_idx, result, tickObs, stableVars >>

\* except Exception (outer): "Errore nel ciclo principale"
OuterExcept ==
    /\ pc = "outer_except"
    /\ pc' = "sleep"
    /\ queried' = <<>>
    /\ resolve_exc' = -1
    /\ UNCHANGED << valVars, steady, notifyCalls, attemptObs, cfgVars,
                    last_ip, current_ip, ep, last_error, attempt, fetchedVars,
                    chat_idx, result, tickObs, stableVars >>

\* time.sleep(cfg["check_interval"]), then the next tick begins.  The locals
\* of the tick that ended are all assigned again before they are read.
IntervalSleep ==
    /\ pc = "sleep"
    /\ pc' = "resolve"
    /\ current_ip' = None
    /\ ep' = 1
    /\ last_error' = 0
    /\ resolve_exc' = -1
    /\ queried' = <<>>
    /\ attempt' = 0
    /\ record_id' = ""
    /\ cf_ip' = None
    /\ cf_proxied' = FALSE
    /\ chat_idx' = 1
    /\ fetches' = 0
    /\ writes' = 0
    /\ okWrites' = 0
    /\ lastWrite' = <<>>
    /\ retrySleeps' = 0
    /\ sent' = <<>>
    /\ firstFailed' = 0
    /\ tickStartIp' = last_ip
    /\ outcome' = "running"
    /\ attFetches' = 0
    /\ attFetchOk' = FALSE
    /\ attWrites' = 0
    /\ attWriteOk' = FALSE
    /\ notifyCalls' = 0
    /\ UNCHANGED << valVars, steady, cfgVars, last_ip, result, stableVars >>

(***************************************************************************)
(* The provider's side: somebody else edits, recreates or deletes the      *)
(* record.                                                                 *)
(***************************************************************************)
ExternalChange ==
    /\ result' \in ({<<>>} \cup { <<r>> : r \in Records }) \ {result}
    /\ stable' = None
    /\ stableTicks' = 0
    /\ UNCHANGED << valVars, steady, notifyCalls, attemptObs, cfgVars, pc,
                    last_ip, current_ip, resolverVars, attempt, fetchedVars,
                    chat_idx, tickObs >>

Step ==
    \/ QueryEndpointValid
    \/ QueryEndpointInvalid
    \/ QueryEndpointError
    \/ ResolveFail
    \/ ShortCircuit
    \/ BeginReconcile
    \/ NextAttempt
    \/ LoopExhausted
    \/ FetchOk
    \/ FetchNotFound
    \/ FetchError
    \/ DecideUpdate
    \/ AlreadyAligned
    \/ UpdateOk
    \/ UpdateRejected
    \/ UpdateError
    \/ NotifySkip
    \/ NotifySend
    \/ NotifyReturn
    \/ MarkApplied
    \/ InnerExceptRetry
    \/ InnerExceptGiveUp
    \/ RetrySleep
    \/ OuterExcept
    \/ IntervalSleep

Next == Step \/ ExternalChange

Spec == Init /\ [][Next]_vars

\* the record is changed by update_cloudflare_dns alone
ClosedSpec == Init /\ [][Step]_vars

\* The loop under fair scheduling: every call of a tick returns, raises or
\* times out (urlopen has a timeout everywhere) and both sleeps end.  Of
\* the Telegram configurations the two extreme ones are kept: not configured,
\* and configured with MaxChats chats.
LiveInit ==
    /\ Init
    /\ \/ bot_token = "" /\ chat_ids = <<>>
       \/ bot_token = "tok" /\ Len(chat_ids) = MaxChats

FairSpec == LiveInit /\ [][Next]_vars /\ WF_vars(Step)

(***************************************************************************)
(* Settled surroundings: from the start of some tick on, get_current_ip    *)
(* returns one and the same address, get_cloudflare_record and             *)
(* update_cloudflare_dns succeed and nobody else touches the record.       *)
(***************************************************************************)
Settle ==
    /\ pc = "resolve"
    /\ queried = <<>>
    /\ steady = None
    /\ result # <<>>
    /\ steady' \in ValidAnswers
    /\ UNCHANGED << valVars, notifyCalls, attemptObs, cfgVars, pc, last_ip,
                    current_ip, resolverVars, attempt, fetchedVars, chat_idx,
                    result, tickObs, stableVars >>

\* the steps main() can take in settled surroundings
SettledStep ==
    \/ QueryEndpointValid /\ current_ip' = steady
    \/ ShortCircuit
    \/ BeginReconcile
    \/ NextAttempt
    \/ LoopExhausted
    \/ FetchOk
    \/ DecideUpdate
    \/ AlreadyAligned
    \/ UpdateOk
    \/ NotifySkip
    \/ NotifySend
    \/ NotifyReturn
    \/ MarkApplied
    \/ IntervalSleep

SteadyStep ==
    \/ steady = None /\ Step
    \/ steady # None /\ SettledStep

SteadyNext ==
    \/ steady = None /\ Next
    \/ Settle
    \/ steady # None /\ SettledStep

\* main() keeps running: no step of it is postponed forever
SteadySpec == LiveInit /\ [][SteadyNext]_vars /\ WF_vars(SteadyStep)

TypeOK ==
    /\ max_retries \in 0..MaxRetries
    /\ pc \in {"resolve", "check", "for", "fetch", "decide", "update",
               "notify", "applied", "inner_except", "retry_sleep",
               "outer_except", "sleep"}
    /\ ValidAnswers = {IpA, IpB, IpU}
    /\ last_ip \in {None} \cup ValidAnswers
    /\ current_ip \in {None} \cup ValidAnswers
    /\ attempt \in 0..max_retries
    /\ fetches \in 0..max_retries
    /\ writes \in 0..max_retries

(***************************************************************************)
(* is_valid_public_ipv4() on its own: one call on a string drawn from      *)
(* Candidates.                                                             *)
(***************************************************************************)
AsciiDigit == <<"0", "1", "2", "3", "4", "5", "6", "7", "8", "9">>

\* str(n) for 0 <= n < 1000
Decimal(n) ==
    IF n < 10 THEN << AsciiDigit[n + 1] >>
    ELSE IF n < 100 THEN << AsciiDigit[(n \div 10) + 1], AsciiDigit[(n % 10) + 1] >>
    ELSE << AsciiDigit[(n \div 100) + 1], AsciiDigit[((n \div 10) % 10) + 1],
            AsciiDigit[(n % 10) + 1] >>

\* the pieces the argument strings are put together from: octets on both
\* sides of every comparison of the function, pieces that are not octets,
\* and characters before the first and after the last piece
FirstOctets ==
    {0, 9, 10, 11, 126, 127, 128, 171, 172, 173, 191, 192, 193, 255, 256, 999}
SecondOctets == {0, 15, 16, 31, 32, 167, 168, 169, 255, 256}
ThirdParts == {Decimal(0), Decimal(256)}
LastParts ==
    {Decimal(1), Decimal(255), Decimal(256), <<"U+0663">>, <<"0", "0", "0", "1">>}
Prefixes == {<<>>, <<" ">>, <<"\n">>, <<"0">>}
Suffixes ==
    {<<>>, <<"\n">>, <<" ">>, <<"x">>, <<"\n", "\n">>, <<".">>, <<".", "1">>}

Candidates ==
    Bodies \cup
    { p \o Decimal(a) \o <<".">> \o Decimal(b) \o <<".">> \o c \o <<".">> \o d \o q :
        p \in Prefixes, a \in FirstOctets, b \in SecondOctets,
        c \in ThirdParts, d \in LastParts, q \in Suffixes }

\* is_valid_public_ipv4(candidate) returns
Validate ==
    /\ verdict = "none"
    /\ verdict' = IF is_valid_public_ipv4(candidate) THEN "True" ELSE "False"
    /\ UNCHANGED << candidate, steady, notifyCalls, attemptObs, cfgVars, pc,
                    last_ip, current_ip, resolverVars, attempt, fetchedVars,
                    chat_idx, result, tickObs, stableVars >>

\* the main loop not started, any candidate as the argument
ValInit ==
    /\ candidate \in Candidates
    /\ verdict = "none"
    /\ steady = None
    /\ notifyCalls = 0
    /\ attFetches = 0
    /\ attFetchOk = FALSE
    /\ attWrites = 0
    /\ attWriteOk = FALSE
    /\ max_retries = 0
    /\ bot_token = "absent"
    /\ chat_ids = <<>>
    /\ pc = "resolve"
    /\ last_ip = None
    /\ current_ip = None
    /\ ep = 1
    /\ last_error = 0
    /\ resolve_exc = -1
    /\ attempt = 0
    /\ record_id = ""
    /\ cf_ip = None
    /\ cf_proxied = FALSE
    /\ chat_idx = 1
    /\ result = <<>>
    /\ queried = <<>>
    /\ fetches = 0
    /\ writes = 0
    /\ okWrites = 0
    /\ lastWrite = <<>>
    /\ retrySleeps = 0
    /\ sent = <<>>
    /\ firstFailed = 0
    /\ tickStartIp = None
    /\ outcome = "running"
    /\ stable = None
    /\ stableTicks = 0

ValSpec == ValInit /\ [][Validate]_vars


(***************************************************************************)
(* Properties.                                                             *)
(***************************************************************************)

\* C1 (idempotence): while the provider record holds the resolved IP with
\* proxied = false, tick after tick with that same resolved IP, no
\* update_cloudflare_dns call is issued, whatever last_ip is.
C1_Idempotence ==
    stable # None => writes = 0 /\ okWrites = 0 /\ lastWrite = <<>>

\* the second consecutive such tick has ended, the first one having started
\* with last_ip unset or different
C1_Witness ==
    /\ pc = "sleep"
    /\ stable = IpA
    /\ stableTicks >= 2
    /\ current_ip = IpA
    /\ outcome = "unchanged"

\* C2 (retry exhaustion): a tick makes at most max_retries attempts, hence at
\* most max_retries fetches and at most max_retries writes, and a tick it
\* abandons because every attempt failed ends with last_ip as it began.
C2_RetryExhaustion ==
    /\ attempt <= max_retries
    /\ fetches <= max_retries
    /\ writes <= max_retries
    /\ outcome = "abandoned" =>
        /\ pc = "sleep"
        /\ okWrites = 0
        /\ last_ip = tickStartIp
        /\ IpChanged(current_ip, tickStartIp)

\* all attempts of a tick were used, writes among them, and it was abandoned
C2_Witness ==
    /\ outcome = "abandoned"
    /\ max_retries >= 2
    /\ fetches = max_retries
    /\ writes >= 1

\* C3 (retry delay): every attempt after the first of a tick is preceded by a
\* retry_delay sleep, however the attempt before it failed, and no sleep
\* follows the last attempt.
C3_RetryDelay ==
    /\ pc \in {"fetch", "decide", "update"} => retrySleeps = attempt - 1
    /\ max_retries >= 1 => retrySleeps <= max_retries - 1

\* C4 as stated: a tick that finds the record holding the resolved IP with
\* proxied = true issues exactly one update call, carrying proxied = false.
C4_ExactlyOneWrite ==
    (pc = "sleep" /\ cf_ip = current_ip /\ cf_proxied) =>
        /\ writes = 1
        /\ Head(lastWrite).proxied = FALSE

\* C4 amended (forced unproxy): a tick whose fetch found the record holding
\* the resolved IP with proxied = true never treats it as aligned: it issues
\* at least one update call and at most max_retries, each carrying
\* proxied = false and the resolved IP, at most one of them successful, and
\* exactly one call when the first attempt's fetch and update succeed.
C4_ForcedUnproxy ==
    (pc = "sleep" /\ cf_ip = current_ip /\ cf_proxied) =>
        /\ outcome \in {"updated", "abandoned"}
        /\ writes >= 1
        /\ writes <= max_retries
        /\ okWrites <= 1
        /\ lastWrite = << [id |-> record_id, content |-> current_ip,
                           proxied |-> FALSE] >>
        /\ (outcome = "updated" /\ attempt = 1) => writes = 1

\* the first attempt fetched the resolved IP, proxied, and its update succeeded
C4_Witness ==
    /\ pc = "sleep"
    /\ cf_ip = current_ip
    /\ cf_proxied
    /\ outcome = "updated"
    /\ attempt = 1
    /\ writes = 1
    /\ result = << [id |-> record_id, content |-> current_ip,
                    proxied |-> FALSE] >>

\* C5 (forced proxy flag): every update call carries proxied = false and the
\* IP resolved in the current tick, whatever the fetch returned.
C5_WritePayload ==
    lastWrite # <<>> =>
        /\ Head(lastWrite).proxied = FALSE
        /\ Head(lastWrite).content = current_ip

\* an update call was issued after a fetch that returned a proxied record
\* with another content
C5_Witness ==
    /\ lastWrite # <<>>
    /\ cf_proxied
    /\ cf_ip # current_ip
    /\ cf_ip # None

\* C6 (local short-circuit): a tick whose resolved IP equals last_ip issues no
\* fetch, no update and no notification and leaves last_ip as it is,
\* whatever the provider record holds.
C6_ShortCircuit ==
    (current_ip # None /\ current_ip = tickStartIp) =>
        /\ pc \in {"check", "sleep"}
        /\ fetches = 0
        /\ writes = 0
        /\ sent = <<>>
        /\ last_ip = tickStartIp
        /\ pc = "sleep" => outcome = "unchanged"

\* a short-circuited tick has ended although the record is proxied and holds
\* another IP
C6_Witness ==
    /\ pc = "sleep"
    /\ current_ip = IpA
    /\ tickStartIp = IpA
    /\ result # <<>>
    /\ Head(result).content = IpB
    /\ Head(result).proxied

\* C7 (the loop survives errors): a new tick begins only out of the
\* check_interval sleep, the sleep is always followed by Resolve, every tick
\* reaches the sleep whatever failed in it, and Resolve is reached again and
\* again.
C7_LoopNeverEnds ==
    /\ [][pc' = "resolve" /\ pc # "resolve" => pc = "sleep"]_vars
    /\ [][pc = "sleep" /\ pc' # "sleep" => pc' = "resolve"]_vars
    /\ []<>(pc = "sleep")
    /\ []<>(pc = "resolve")

\* a tick whose resolver failed has reached the sleep, in a loop that had
\* reconciled before
C7_Witness ==
    /\ pc = "sleep"
    /\ outcome = "unresolved"
    /\ tickStartIp # None

\* C8 (success ends the attempt loop): after an update reported success the
\* tick issues no further fetch or update, sends the message once to each
\* configured chat and sets last_ip to the resolved IP; on the already
\* aligned path it sets last_ip and ends the loop without any write or
\* message.
C8_SuccessPath ==
    /\ okWrites >= 1 =>
        /\ okWrites = 1
        /\ pc \in {"notify", "applied", "sleep"}
        /\ fetches = attempt
        /\ writes <= attempt
    /\ outcome = "updated" =>
        /\ pc = "sleep"
        /\ okWrites = 1
        /\ last_ip = current_ip
        /\ sent = IF Configured(bot_token, chat_ids) THEN chat_ids ELSE <<>>
    /\ outcome = "aligned" =>
        /\ pc = "sleep"
        /\ last_ip = current_ip
        /\ fetches = attempt
        /\ writes < attempt
        /\ okWrites = 0
        /\ sent = <<>>

\* the second attempt's update succeeded, after a first write that failed, and
\* both chats got the message
C8_Witness ==
    /\ pc = "sleep"
    /\ outcome = "updated"
    /\ attempt = 2
    /\ writes = 2
    /\ sent = <<1, 2>>
    /\ tickStartIp # None
    /\ last_ip # tickStartIp

\* C9 (errors leave last_ip alone): a tick whose resolver failed issues no
\* fetch, no update and no message; last_ip differs from its value at the
\* start of the tick only after the aligned path or a successful update,
\* never in or after an exception handler of a failed attempt.
C9_ErrorsKeepLastIp ==
    /\ outcome = "unresolved" =>
        /\ pc \in {"outer_except", "sleep"}
        /\ fetches = 0
        /\ writes = 0
        /\ sent = <<>>
        /\ last_ip = tickStartIp
    /\ pc \in {"inner_except", "retry_sleep", "outer_except"} =>
        last_ip = tickStartIp
    /\ last_ip # tickStartIp =>
        /\ outcome \in {"updated", "aligned"}
        /\ last_ip = current_ip

\* every endpoint raised, in a loop that had reconciled before
C9_Witness ==
    /\ pc = "outer_except"
    /\ resolve_exc = NumEndpoints
    /\ last_ip = IpA

\* C10 (notification failures are isolated): the requests of one message go
\* to the chats in list order, one each, whatever the earlier ones did; no
\* exception handler of main() is entered once the update succeeded; and
\* last_ip is then set whichever requests failed.
C10_NotifyIsolated ==
    /\ pc = "notify" =>
        /\ chat_idx <= Len(chat_ids) + 1
        /\ sent = IF Configured(bot_token, chat_ids)
                  THEN SubSeq(chat_ids, 1, chat_idx - 1)
                  ELSE <<>>
    /\ pc = "applied" /\ Configured(bot_token, chat_ids) => sent = chat_ids
    /\ pc \in {"inner_except", "retry_sleep", "outer_except", "for"} =>
        sent = <<>> /\ okWrites = 0
    /\ firstFailed # 0 /\ pc = "sleep" =>
        /\ outcome = "updated"
        /\ sent = chat_ids
        /\ last_ip = current_ip

\* the request to the first chat failed, the second chat still got its
\* request, and last_ip was set
C10_Witness ==
    /\ pc = "sleep"
    /\ firstFailed = 1
    /\ sent = <<1, 2>>
    /\ last_ip = current_ip
    /\ tickStartIp # last_ip

(***************************************************************************)
(* C11: notification gating.  With the bot token absent or empty, or with  *)
(* no chat id configured, send_telegram_message issues no sendMessage      *)
(* request whatever the message, and returns normally: after the update    *)
(* that reported success main() goes on to last_ip = current_ip and never  *)
(* enters an exception handler.                                            *)
(***************************************************************************)
C11_NotifyGating ==
    (bot_token \in {"absent", ""} \/ chat_ids = <<>>) =>
        /\ sent = <<>>
        /\ firstFailed = 0
        /\ (okWrites > 0 => pc \in {"notify", "applied", "sleep"})

\* send_telegram_message has returned with an empty token and chats present
C11_Witness ==
    /\ pc = "applied"
    /\ bot_token = ""
    /\ chat_ids # <<>>
    /\ okWrites = 1
    /\ sent = <<>>

(***************************************************************************)
(* C12: resolver fallback.  One get_current_ip call queries the endpoints  *)
(* in the order of the methods list, each at most once: the k-th request   *)
(* of the call goes to endpoint k.  While the call is running no endpoint  *)
(* has given an accepted answer yet; when it returns, what it returns is   *)
(* an accepted answer of the endpoint queried last, and no endpoint after  *)
(* that one was queried.                                                   *)
(***************************************************************************)
C12_ResolverFallback ==
    /\ Len(queried) <= NumEndpoints
    /\ \A i \in 1..Len(queried) : queried[i] = i
    /\ (pc = "resolve" => ep = Len(queried) + 1 /\ current_ip = None)
    /\ (pc = "check" => /\ queried # <<>>
                        /\ ep = 1
                        /\ current_ip \in ValidAnswers)

\* the first two endpoints failed or were rejected, the third was accepted
C12_Witness ==
    /\ pc = "check"
    /\ queried = <<1, 2, 3>>
    /\ current_ip = IpB

(***************************************************************************)
(* C13: the validator.  is_valid_public_ipv4 returns True for exactly the  *)
(* strings made of four dot-separated octets, each one to three ASCII      *)
(* digits with a value in 0..255, that lie outside 10.0.0.0/8,             *)
(* 127.0.0.0/8, 172.16.0.0/12 and 192.168.0.0/16; it returns False for     *)
(* every other string, extra characters after the last octet included.     *)
(***************************************************************************)
C13_OctetValue(o) ==
    LET v(c) == CHOOSE n \in 0..9 : AsciiDigit[n + 1] = c
    IN  IF Len(o) = 1 THEN v(o[1])
        ELSE IF Len(o) = 2 THEN 10 * v(o[1]) + v(o[2])
        ELSE 100 * v(o[1]) + 10 * v(o[2]) + v(o[3])

C13_IsOctet(o) ==
    /\ Len(o) \in 1..3
    /\ \A i \in 1..Len(o) : \E n \in 1..10 : AsciiDigit[n] = o[i]
    /\ C13_OctetValue(o) <= 255

C13_Expected(s) ==
    \E i, j, k \in 1..Len(s) :
        /\ i < j /\ j < k
        /\ s[i] = "." /\ s[j] = "." /\ s[k] = "."
        /\ LET a == SubSeq(s, 1, i - 1)
               b == SubSeq(s, i + 1, j - 1)
               c == SubSeq(s, j + 1, k - 1)
               d == SubSeq(s, k + 1, Len(s))
           IN  /\ C13_IsOctet(a) /\ C13_IsOctet(b)
               /\ C13_IsOctet(c) /\ C13_IsOctet(d)
               /\ C13_OctetValue(a) \notin {10, 127}
               /\ ~(C13_OctetValue(a) = 172 /\ C13_OctetValue(b) \in 16..31)
               /\ ~(C13_OctetValue(a) = 192 /\ C13_OctetValue(b) = 168)

C13_Validator ==
    verdict # "none" => ((verdict = "True") <=> C13_Expected(candidate))

(***************************************************************************)
(* C14: only public addresses.  last_ip is None or a string the validator  *)
(* accepts, and so is the content of every update_cloudflare_dns call and  *)
(* every current_ip compared with the fetched record; no private-range,    *)
(* loopback or malformed address is compared, written or stored.           *)
(***************************************************************************)
C14_Strings == ValidAnswers \cup RejectedAnswers \cup Contents
C14_Accepted == { a \in C14_Strings : is_valid_public_ipv4(a) }
C14_PublicQuads == { a \in C14_Strings : C13_Expected(a) }

\* the first half alone: whatever is used passed the validator
C14_ValidatorAccepted ==
    /\ last_ip \in {None} \cup C14_Accepted
    /\ (pc \in {"decide", "update"} => current_ip \in C14_Accepted)
    /\ (lastWrite # <<>> => Head(lastWrite).content \in C14_Accepted)

C14_OnlyPublicIps ==
    /\ C14_ValidatorAccepted
    /\ last_ip \in {None} \cup C14_PublicQuads
    /\ (pc \in {"decide", "update"} => current_ip \in C14_PublicQuads)
    /\ (lastWrite # <<>> => Head(lastWrite).content \in C14_PublicQuads)

(***************************************************************************)
(* C15: the resolution failure.  When get_current_ip has gone through all  *)
(* its endpoints without an accepted answer, the RuntimeError it raises    *)
(* carries the failure of the endpoint tried last, also when that endpoint *)
(* (or every endpoint) answered with a value the validator rejected.       *)
(***************************************************************************)
C15_CarriesLastFailure ==
    (pc = "outer_except" /\ outcome = "unresolved") =>
        /\ queried = [i \in 1..NumEndpoints |-> i]
        /\ resolve_exc = queried[Len(queried)]

(***************************************************************************)
(* C16: last_ip mirrors the provider.  When nothing but a successful       *)
(* update_cloudflare_dns changes the record, a last_ip that is set equals  *)
(* the record's content and the record is not proxied; the one exception   *)
(* inside a tick is the stretch between an update that returned True and   *)
(* the last_ip = current_ip that follows it, where the record already      *)
(* holds current_ip.  last_ip is assigned current_ip only, and only after  *)
(* a fetch of the same attempt showed the record consistent with it or an  *)
(* update of the same attempt returned True.                               *)
(***************************************************************************)
C16_Mirrors ==
    last_ip # None =>
        \/ Consistent(result, last_ip)
        \/ /\ pc \in {"notify", "applied"}
           /\ attWriteOk
           /\ Consistent(result, current_ip)

C16_Assigned ==
    last_ip' # last_ip =>
        /\ last_ip' = current_ip
        /\ \/ /\ attFetchOk /\ attWrites = 0
              /\ cf_ip = current_ip /\ ~cf_proxied
           \/ /\ attFetchOk /\ attWriteOk
              /\ Head(lastWrite).content = current_ip

C16_LastIpMirrorsProvider == [](C16_Mirrors) /\ [][C16_Assigned]_vars

\* a second address has been applied by an update and the tick has ended
C16_Witness ==
    /\ pc = "sleep"
    /\ outcome = "updated"
    /\ tickStartIp = IpA
    /\ last_ip = IpB
    /\ Consistent(result, IpB)

(***************************************************************************)
(* C17: convergence.  With max_retries >= 1, once get_current_ip returns   *)
(* the same address at every tick and the Cloudflare calls succeed, the    *)
(* record comes to hold that address unproxied with last_ip equal to it,   *)
(* and from then on every tick ends at the change check: no fetch, no      *)
(* update and no notification is issued any more.  A tick given up after   *)
(* its last attempt leaves last_ip as it was, different from the address   *)
(* resolved, so that the next tick reconciles again.                       *)
(***************************************************************************)
C17_Quiet ==
    /\ last_ip = steady
    /\ Consistent(result, steady)
    /\ pc \in {"resolve", "check", "sleep"}

C17_AbandonedStaysDue ==
    (pc = "sleep" /\ outcome = "abandoned") =>
        last_ip = tickStartIp /\ IpChanged(current_ip, last_ip)

\* whatever last_ip and the record were when things settled
C17_Convergence ==
    /\ []C17_AbandonedStaysDue
    /\ (steady # None /\ max_retries >= 1) ~> []C17_Quiet

\* provided last_ip does not already equal the address while the record,
\* edited by somebody else since, differs from it
C17_ConvergenceUnlessStale ==
    /\ []C17_AbandonedStaysDue
    /\ (/\ steady # None
        /\ max_retries >= 1
        /\ (last_ip = steady => Consistent(result, steady))) ~> []C17_Quiet

\* settled on IpB, the tick that wrote it to the record has ended
C17_Witness ==
    /\ steady = IpB
    /\ pc = "sleep"
    /\ outcome = "updated"
    /\ last_ip = IpB
    /\ Consistent(result, IpB)

(***************************************************************************)
(* C18: fetch before write.  Every update_cloudflare_dns call comes after  *)
(* a get_cloudflare_record call of the same attempt that returned a        *)
(* record, and is made with the id that call returned; an attempt whose    *)
(* fetch raised makes no update call; an attempt makes at most one fetch   *)
(* and at most one update call.                                            *)
(***************************************************************************)
C18_FetchBeforeWrite ==
    /\ attFetches <= 1
    /\ attWrites <= 1
    /\ (attFetchOk => attFetches = 1)
    /\ (pc = "update" => attFetchOk /\ attWrites = 0)
    /\ (attWrites > 0 =>
            /\ attFetchOk
            /\ lastWrite # <<>>
            /\ Head(lastWrite).id = record_id)
    /\ (attWriteOk => attWrites = 1)

\* the second attempt of a tick has fetched record r2 and updated it
C18_Witness ==
    /\ attempt = 2
    /\ fetches = 2
    /\ attFetchOk
    /\ attWrites = 1
    /\ Head(lastWrite).id = "r2"
    /\ pc = "notify"

(***************************************************************************)
(* C19: one notification per successful update.  In every tick the number  *)
(* of send_telegram_message calls equals the number of                     *)
(* update_cloudflare_dns calls that returned True, the call in progress    *)
(* counted, and neither exceeds one; summed over the ticks the two numbers *)
(* are equal over any run.  A tick that found the record consistent, was   *)
(* given up, failed to resolve or ended at the change check has made no    *)
(* call and sent nothing.                                                  *)
(***************************************************************************)
C19_NotifyPerSuccess ==
    /\ okWrites <= 1
    /\ notifyCalls <= 1
    /\ notifyCalls + (IF pc = "notify" THEN 1 ELSE 0) = okWrites
    /\ (sent # <<>> => okWrites = 1)
    /\ (outcome \in {"aligned", "abandoned", "unchanged", "unresolved"} =>
            notifyCalls = 0 /\ okWrites = 0 /\ sent = <<>>)

\* a tick whose second update returned True has notified every chat
C19_Witness ==
    /\ pc = "sleep"
    /\ outcome = "updated"
    /\ writes = 2
    /\ okWrites = 1
    /\ notifyCalls = 1
    /\ Len(sent) = MaxChats

=============================================================================
